---- MODULE Spec2Model ----
(***************************************************************************)
(* Model of the failover outbound handler of leaf                          *)
(* (leaf/src/proxy/failover/tcp.rs): construction, the lazily spawned      *)
(* health-check loop that probes the children and rewrites the schedule,   *)
(* and concurrent calls of handle that snapshot the schedule and dial the  *)
(* children one after the other, each attempt bounded by fail_timeout;     *)
(* of the try-all handler (leaf/src/proxy/tryall/tcp.rs), which races its  *)
(* children with staggered starts; and of the redirect UDP handler         *)
(* (leaf/src/proxy/redirect/udp.rs), which pins every datagram to a fixed  *)
(* target.  The three handlers share no state: each has its variables and  *)
(* its specifications, and leaves the variables of the others untouched.   *)
(*                                                                         *)
(* Child indices are 0-based as in the source; sequences are 1-based.      *)
(***************************************************************************)
EXTENDS Integers, Sequences, FiniteSets, TLC

\* ------------------------------------------------------------------ bounds
\* Number of concurrent handle invocations.
NumCallers == 2
\* Largest number of children (actors.len()).
MaxChildren == 2
\* Largest latency in ms a successful probe measures.
MaxLatency == 1
\* Largest fail_timeout (seconds) a handler is configured with.
MaxFailTimeout == 1
\* Largest number of children of a try-all handler.
MaxRacers == 3
\* Longest time a child's dial takes in a try-all race, when it returns.
MaxRaceDial == 2
\* Largest delay_base of a try-all handler.
MaxDelayBase == 2
\* Largest datagram length sent or received over a redirect association.
MaxPayload == 2

\* u128::MAX, the top of the latency scale.  TLC integers are 32 bits wide, so
\* the scale is cut down to the largest value TLC represents; the code only
\* ever subtracts 1, 2 or 3 from it and compares.
U128_MAX == 2147483647

Callers == 1..NumCallers
Latencies == 0..MaxLatency
\* Time a child's handle future takes to complete (seconds); one more than the
\* largest fail_timeout so that a child can be slower than any timeout.
DialTimes == 0..(MaxFailTimeout + 1)

VARIABLES
    actors,             \* actors.len()
    fail_timeout,       \* Handler.fail_timeout
    failover,           \* the failover flag captured by the health-check task
    health_check,       \* the health_check flag given to new
    schedule,           \* contents of Handler.schedule
    schedule_lock,      \* holder of the schedule mutex: "free", "hc"
    committed,          \* schedule as it was when the mutex was last free
    health_check_task,  \* contents of Handler.health_check_task: "Some"/"None"
    spawned,            \* number of tokio::spawn(task) calls
    hc_pc,              \* position of the health-check task
    hc_i,               \* loop index of the health-check task
    measures,           \* the iteration's Vec<Measure>
    probes,             \* behaviour of child i-1 in the iteration's probe
    pc,                 \* position of each handle invocation
    snap,               \* each invocation's copy of the schedule
    pos,                \* each invocation's position in its copy
    attempts,           \* each invocation's finished attempts, in order
    inflight,           \* each invocation's child futures not yet dropped
    spent,              \* each invocation's time spent awaiting attempts
    result,             \* what each invocation returned
    \* try-all handler
    ta_actors,          \* actors.len()
    delay_base,         \* Handler.delay_base
    overflow_checks,    \* whether the build checks arithmetic overflow
    ta_child,           \* what each child's handle does when dialled
    ta_pc,              \* position of the handle invocation
    ta_next,            \* next task select_ok polls for the first time
    now,                \* time since handle was invoked
    task,               \* state of each child task
    wake,               \* deadline of each task's delay_for
    started,            \* when each task called its child's handle (-1: never)
    ta_errs,            \* the children that failed, in the order they failed
    ta_result,          \* what handle returned
    \* redirect UDP handler
    rd_address,         \* Handler.address
    rd_port,            \* Handler.port
    rd_pc,              \* position of connect and of the association
    rd_target,          \* Datagram.target
    rd_halves,          \* the target held by the receive and the send half
    rd_sent,            \* the last send_to: payload, asked peer, wire destination
    rd_recv             \* the last recv_from: length, actual source, reported peer

cfgvars == <<actors, fail_timeout, failover, health_check>>
hcvars == <<hc_pc, hc_i, measures, probes>>
callvars == <<pc, snap, pos, attempts, inflight, spent, result>>
fovars == <<actors, fail_timeout, failover, health_check, schedule,
            schedule_lock, committed, health_check_task, spawned, hc_pc, hc_i,
            measures, probes, pc, snap, pos, attempts, inflight, spent, result>>
tavars == <<ta_actors, delay_base, overflow_checks, ta_child, ta_pc, ta_next,
            now, task, wake, started, ta_errs, ta_result>>
rdvars == <<rd_address, rd_port, rd_pc, rd_target, rd_halves, rd_sent, rd_recv>>
vars == <<fovars, tavars, rdvars>>

\* ------------------------------------------------------------ construction
\* for i in 0..actors.len() { schedule.push(i) }
Identity(n) == [k \in 1..n |-> k - 1]

\* ctx is the child error an Err carries as its context ("none": it carries
\* none).
NoResult == [kind |-> "none", idx |-> 0, ctx |-> "none"]

\* A try-all handler that is not invoked.
TryAllIdle ==
    /\ ta_actors = 0 /\ delay_base = 0 /\ overflow_checks = FALSE
    /\ ta_child = <<>> /\ ta_pc = "idle" /\ ta_next = 0 /\ now = 0
    /\ task = <<>> /\ wake = <<>> /\ started = <<>> /\ ta_errs = <<>>
    /\ ta_result = NoResult

\* A redirect handler that is not connected.
RedirectIdle ==
    /\ rd_address = "" /\ rd_port = 0 /\ rd_pc = "idle"
    /\ rd_target = <<>> /\ rd_halves = <<>> /\ rd_sent = <<>> /\ rd_recv = <<>>

\* Mutation of Init: new() spawns the health-check task itself.
Init_EagerSpawn ==
    /\ TryAllIdle
    /\ RedirectIdle
    /\ actors \in 0..MaxChildren
    /\ fail_timeout \in 0..MaxFailTimeout
    /\ failover \in BOOLEAN
    /\ health_check \in BOOLEAN
    /\ schedule = Identity(actors)
    /\ schedule_lock = "free"
    /\ committed = Identity(actors)
    /\ health_check_task = "None"
    /\ spawned = IF health_check THEN 1 ELSE 0
    /\ hc_pc = IF health_check THEN "probe" ELSE "unspawned"
    /\ hc_i = 0
    /\ measures = <<>>
    /\ probes = <<>>
    /\ pc = [c \in Callers |-> "check"]
    /\ snap = [c \in Callers |-> <<>>]
    /\ pos = [c \in Callers |-> 0]
    /\ attempts = [c \in Callers |-> <<>>]
    /\ inflight = [c \in Callers |-> {}]
    /\ spent = [c \in Callers |-> 0]
    /\ result = [c \in Callers |-> NoResult]

Init ==
    /\ TryAllIdle
    /\ RedirectIdle
    /\ actors \in 0..MaxChildren
    /\ fail_timeout \in 0..MaxFailTimeout
    /\ failover \in BOOLEAN
    /\ health_check \in BOOLEAN
    /\ schedule = Identity(actors)
    /\ schedule_lock = "free"
    /\ committed = Identity(actors)
    /\ health_check_task = IF health_check THEN "Some" ELSE "None"
    /\ spawned = 0
    /\ hc_pc = "unspawned"
    /\ hc_i = 0
    /\ measures = <<>>
    /\ probes = <<>>
    /\ pc = [c \in Callers |-> "check"]
    /\ snap = [c \in Callers |-> <<>>]
    /\ pos = [c \in Callers |-> 0]
    /\ attempts = [c \in Callers |-> <<>>]
    /\ inflight = [c \in Callers |-> {}]
    /\ spent = [c \in Callers |-> 0]
    /\ result = [c \in Callers |-> NoResult]

\* ------------------------------------------------------- health-check probe
\* What a child does when probed: the stage of dial -> write -> read at which
\* the probe ends ("done": all three completed), and how: with an error, or
\* because the 10 second bound ran out while that stage was pending.
ProbeBehaviours ==
    [stage : {"dial", "write", "read"}, how : {"err", "hang"}, ms : {0}]
        \cup [stage : {"done"}, how : {"ok"}, ms : Latencies]

Measure(i, ms) == [idx |-> i, lat |-> ms]

\* Variant: a failed read reports the elapsed time like a successful one.
single_measure_ReadErrElapsed(i, b) ==
    IF b.stage = "dial" THEN Measure(i, U128_MAX)
    ELSE IF b.stage = "write" THEN Measure(i, U128_MAX - 2)
    ELSE Measure(i, b.ms)

\* Variant: the sentinels of the write and the read failure are exchanged.
single_measure_Swapped(i, b) ==
    IF b.stage = "dial" THEN Measure(i, U128_MAX)
    ELSE IF b.stage = "write" THEN Measure(i, U128_MAX - 3)
    ELSE IF b.stage = "read" THEN Measure(i, U128_MAX - 2)
    ELSE Measure(i, b.ms)

\* The async block single_measure: the Measure it returns when it completes.
single_measure(i, b) ==
    IF b.stage = "dial" THEN Measure(i, U128_MAX)
    ELSE IF b.stage = "write" THEN Measure(i, U128_MAX - 2)
    ELSE IF b.stage = "read" THEN Measure(i, U128_MAX - 3)
    ELSE Measure(i, b.ms)

\* timeout(10 s, single_measure): the Measure pushed for child i.
ProbeMeasure(i, b) ==
    IF b.how = "hang" THEN Measure(i, U128_MAX - 1) ELSE single_measure(i, b)

\* Variant: an unstable sort, which places a measure before its equals.
InsertMeasure_Unstable(m, s) ==
    LET k == Cardinality({j \in 1..Len(s) : s[j].lat < m.lat})
    IN  SubSeq(s, 1, k) \o <<m>> \o SubSeq(s, k + 1, Len(s))

\* measures.sort_by(|a, b| a.1.cmp(&b.1)): a stable sort on the latency.
InsertMeasure(m, s) ==
    LET k == Cardinality({j \in 1..Len(s) : s[j].lat <= m.lat})
    IN  SubSeq(s, 1, k) \o <<m>> \o SubSeq(s, k + 1, Len(s))

\* Variant: the measures are left in probe order.
SortByLatency_Unsorted(s) == s

RECURSIVE SortByLatency(_)
SortByLatency(s) ==
    IF s = <<>> THEN <<>>
    ELSE InsertMeasure(s[Len(s)], SortByLatency(SubSeq(s, 1, Len(s) - 1)))

\* ------------------------------------------------------ health-check task
\* One pass of `for (i, a) in actors2.iter().enumerate()`: probe child hc_i.
HCProbe ==
    /\ hc_pc = "probe"
    /\ hc_i < actors
    /\ \E b \in ProbeBehaviours :
          /\ measures' = Append(measures, ProbeMeasure(hc_i, b))
          /\ probes' = Append(probes, b)
    /\ hc_i' = hc_i + 1
    /\ UNCHANGED <<tavars, rdvars, cfgvars, schedule, schedule_lock, committed,
                   health_check_task, spawned, hc_pc, callvars>>

\* The probe loop is over: measures.sort_by(..).
HCSort ==
    /\ hc_pc = "probe"
    /\ hc_i = actors
    /\ measures' = SortByLatency(measures)
    /\ hc_pc' = "lock"
    /\ UNCHANGED <<tavars, rdvars, cfgvars, schedule, schedule_lock, committed,
                   health_check_task, spawned, hc_i, probes, callvars>>

\* let mut schedule = schedule2.lock().await;
HCLock ==
    /\ hc_pc = "lock"
    /\ schedule_lock = "free"
    /\ schedule_lock' = "hc"
    /\ hc_pc' = "clear"
    /\ UNCHANGED <<tavars, rdvars, cfgvars, schedule, committed,
                   health_check_task, spawned,
                   hc_i, measures, probes, callvars>>

\* Variant: the schedule is not cleared before it is refilled.
HCClear_NoClear ==
    /\ hc_pc = "clear"
    /\ hc_pc' = "push"
    /\ hc_i' = 1
    /\ UNCHANGED <<tavars, rdvars, cfgvars, schedule, schedule_lock, committed,
                   health_check_task, spawned, measures, probes, callvars>>

\* schedule.clear();
HCClear ==
    /\ hc_pc = "clear"
    /\ schedule' = <<>>
    /\ hc_pc' = "push"
    /\ hc_i' = 1
    /\ UNCHANGED <<tavars, rdvars, cfgvars, schedule_lock, committed, health_check_task,
                   spawned, measures, probes, callvars>>

\* if !failover { schedule.push(measures[0].0) }
\* else { for m in measures { schedule.push(m.0) } }
\* measures[0] of an empty Vec panics: the task ends, and unwinding drops the
\* guard, which releases the mutex with the schedule as it is.
HCPush ==
    /\ hc_pc = "push"
    /\ IF ~failover
       THEN IF measures = <<>>
            THEN /\ hc_pc' = "panicked"
                 /\ schedule_lock' = "free"
                 /\ committed' = schedule
                 /\ UNCHANGED <<schedule, hc_i>>
            ELSE /\ schedule' = Append(schedule, measures[1].idx)
                 /\ hc_pc' = "drop"
                 /\ UNCHANGED <<schedule_lock, committed, hc_i>>
       ELSE IF hc_i <= Len(measures)
            THEN /\ schedule' = Append(schedule, measures[hc_i].idx)
                 /\ hc_i' = hc_i + 1
                 /\ UNCHANGED <<schedule_lock, committed, hc_pc>>
            ELSE /\ hc_pc' = "drop"
                 /\ UNCHANGED <<schedule, schedule_lock, committed, hc_i>>
    /\ UNCHANGED <<tavars, rdvars, cfgvars, health_check_task, spawned, measures, probes,
                   callvars>>

\* Variant: the guard is not dropped before the task goes to sleep.
HCDrop_KeepsLock ==
    /\ hc_pc = "drop"
    /\ hc_pc' = "sleep"
    /\ UNCHANGED <<tavars, rdvars, cfgvars, schedule, schedule_lock, committed,
                   health_check_task, spawned, hc_i, measures, probes,
                   callvars>>

\* drop(schedule); then the task waits in delay_for(check_interval).
HCDrop ==
    /\ hc_pc = "drop"
    /\ schedule_lock' = "free"
    /\ committed' = schedule
    /\ hc_pc' = "sleep"
    /\ UNCHANGED <<tavars, rdvars, cfgvars, schedule, health_check_task, spawned, hc_i,
                   measures, probes, callvars>>

\* delay_for is over: the next pass of `loop` starts with an empty Vec.
HCWake ==
    /\ hc_pc = "sleep"
    /\ hc_pc' = "probe"
    /\ hc_i' = 0
    /\ measures' = <<>>
    /\ probes' = <<>>
    /\ UNCHANGED <<tavars, rdvars, cfgvars, schedule, schedule_lock, committed,
                   health_check_task, spawned, callvars>>

HealthCheck == HCProbe \/ HCSort \/ HCLock \/ HCClear \/ HCPush \/ HCDrop \/ HCWake

\* ------------------------------------------------------------------ handle
\* What a child's handle future does when awaited: it returns Ok or Err after
\* d seconds, or never returns.
ChildBehaviours == [kind : {"ok", "err"}, d : DialTimes] \cup [kind : {"hang"}, d : {0}]

\* Variant: the child future is awaited without a deadline.
TimeoutAwait_NoDeadline(secs, b) ==
    IF b.kind # "hang"
    THEN [res |-> b.kind, took |-> b.d]
    ELSE [res |-> "pending", took |-> 0]

\* timeout(Duration::from_secs(fail_timeout), fut).await: the future's own
\* result if it is ready by the deadline, else Err(Elapsed) at the deadline.
TimeoutAwait(secs, b) ==
    IF b.kind # "hang" /\ b.d <= secs
    THEN [res |-> b.kind, took |-> b.d]
    ELSE [res |-> "timeout", took |-> secs]

\* if self.health_check_task.lock().await.is_some() { .. }
\* The guard is a temporary of the condition and is dropped before the block.
CheckTask(c) ==
    /\ pc[c] = "check"
    /\ pc' = [pc EXCEPT ![c] = IF health_check_task = "Some" THEN "take" ELSE "snapshot"]
    /\ UNCHANGED <<tavars, rdvars, cfgvars, schedule, schedule_lock, committed,
                   health_check_task, spawned, hcvars, snap, pos, attempts,
                   inflight, spent, result>>

\* Variant: the task is spawned but the holder is not emptied.
TakeTask_KeepsTask(c) ==
    /\ pc[c] = "take"
    /\ IF health_check_task = "Some"
       THEN /\ spawned' = spawned + 1
            /\ hc_pc' = "probe"
            /\ hc_i' = 0
            /\ measures' = <<>>
            /\ probes' = <<>>
       ELSE UNCHANGED <<spawned, hcvars>>
    /\ pc' = [pc EXCEPT ![c] = "snapshot"]
    /\ UNCHANGED <<tavars, rdvars, cfgvars, schedule, schedule_lock, committed,
                   health_check_task, snap, pos, attempts, inflight, spent,
                   result>>

\* if let Some(task) = self.health_check_task.lock().await.take() { tokio::spawn(task); }
\* take() leaves None in the holder; the spawned task starts its first pass.
TakeTask(c) ==
    /\ pc[c] = "take"
    /\ IF health_check_task = "Some"
       THEN /\ health_check_task' = "None"
            /\ spawned' = spawned + 1
            /\ hc_pc' = "probe"
            /\ hc_i' = 0
            /\ measures' = <<>>
            /\ probes' = <<>>
       ELSE UNCHANGED <<health_check_task, spawned, hcvars>>
    /\ pc' = [pc EXCEPT ![c] = "snapshot"]
    /\ UNCHANGED <<tavars, rdvars, cfgvars, schedule, schedule_lock, committed, snap, pos,
                   attempts, inflight, spent, result>>

\* Variant: the schedule is copied without taking the mutex.
Snapshot_NoLock(c) ==
    /\ pc[c] = "snapshot"
    /\ snap' = [snap EXCEPT ![c] = schedule]
    /\ pos' = [pos EXCEPT ![c] = 1]
    /\ pc' = [pc EXCEPT ![c] = "dial"]
    /\ UNCHANGED <<tavars, rdvars, cfgvars, schedule, schedule_lock, committed,
                   health_check_task, spawned, hcvars, attempts, inflight,
                   spent, result>>

\* let schedule = self.schedule.lock().await.clone();
Snapshot(c) ==
    /\ pc[c] = "snapshot"
    /\ schedule_lock = "free"
    /\ snap' = [snap EXCEPT ![c] = schedule]
    /\ pos' = [pos EXCEPT ![c] = 1]
    /\ pc' = [pc EXCEPT ![c] = "dial"]
    /\ UNCHANGED <<tavars, rdvars, cfgvars, schedule, schedule_lock, committed,
                   health_check_task, spawned, hcvars, attempts, inflight,
                   spent, result>>

\* The head of `for i in schedule`: the loop is over (the aggregate error), or
\* i is out of range (invalid actor index), or actors[i].handle(sess, None) is
\* created under timeout(..) and awaited.
Dial(c) ==
    /\ pc[c] = "dial"
    /\ IF pos[c] > Len(snap[c])
       THEN /\ result' = [result EXCEPT ![c] = [kind |-> "exhausted", idx |-> 0,
                                               ctx |-> "none"]]
            /\ pc' = [pc EXCEPT ![c] = "done"]
            /\ UNCHANGED inflight
       ELSE IF snap[c][pos[c]] >= actors
            THEN /\ result' = [result EXCEPT ![c] = [kind |-> "invalid", idx |-> 0,
                                                    ctx |-> "none"]]
                 /\ pc' = [pc EXCEPT ![c] = "done"]
                 /\ UNCHANGED inflight
            ELSE /\ inflight' = [inflight EXCEPT ![c] = @ \cup {snap[c][pos[c]]}]
                 /\ pc' = [pc EXCEPT ![c] = "await"]
                 /\ UNCHANGED result
    /\ UNCHANGED <<tavars, rdvars, cfgvars, schedule, schedule_lock, committed,
                   health_check_task, spawned, hcvars, snap, pos, attempts,
                   spent>>

\* The attempt on snap[c][pos[c]] is over with outcome r: the Timeout future
\* and the child future inside it are dropped, the attempt is recorded.
EndAttempt(c, r) ==
    /\ attempts' = [attempts EXCEPT ![c] =
                        Append(@, [idx |-> snap[c][pos[c]], res |-> r.res,
                                    took |-> r.took])]
    /\ inflight' = [inflight EXCEPT ![c] = @ \ {snap[c][pos[c]]}]
    /\ spent' = [spent EXCEPT ![c] = @ + r.took]

\* Ok(t) => match t { Ok(v) => return Ok(v), .. }
AttemptOk(c) ==
    /\ pc[c] = "await"
    /\ \E b \in ChildBehaviours :
          LET r == TimeoutAwait(fail_timeout, b)
          IN  /\ r.res = "ok"
              /\ EndAttempt(c, r)
    /\ result' = [result EXCEPT ![c] = [kind |-> "ok", idx |-> snap[c][pos[c]],
                                           ctx |-> "none"]]
    /\ pc' = [pc EXCEPT ![c] = "done"]
    /\ UNCHANGED <<tavars, rdvars, cfgvars, schedule, schedule_lock, committed,
                   health_check_task, spawned, hcvars, snap, pos>>

\* Variant: a child's error ends handle instead of moving on to the next index.
AttemptErr_Returns(c) ==
    /\ pc[c] = "await"
    /\ \E b \in ChildBehaviours :
          LET r == TimeoutAwait(fail_timeout, b)
          IN  /\ r.res = "err"
              /\ EndAttempt(c, r)
    /\ result' = [result EXCEPT ![c] = [kind |-> "exhausted", idx |-> 0,
                                               ctx |-> "none"]]
    /\ pc' = [pc EXCEPT ![c] = "done"]
    /\ UNCHANGED <<tavars, rdvars, cfgvars, schedule, schedule_lock, committed,
                   health_check_task, spawned, hcvars, snap, pos>>

\* Ok(t) => match t { .., Err(_) => continue }
AttemptErr(c) ==
    /\ pc[c] = "await"
    /\ \E b \in ChildBehaviours :
          LET r == TimeoutAwait(fail_timeout, b)
          IN  /\ r.res = "err"
              /\ EndAttempt(c, r)
    /\ pos' = [pos EXCEPT ![c] = @ + 1]
    /\ pc' = [pc EXCEPT ![c] = "dial"]
    /\ UNCHANGED <<tavars, rdvars, cfgvars, schedule, schedule_lock, committed,
                   health_check_task, spawned, hcvars, snap, result>>

\* Variant: the timed-out child future is left running.
AttemptTimeout_Leaks(c) ==
    /\ pc[c] = "await"
    /\ \E b \in ChildBehaviours :
          LET r == TimeoutAwait(fail_timeout, b)
          IN  /\ r.res = "timeout"
              /\ attempts' = [attempts EXCEPT ![c] =
                                 Append(@, [idx |-> snap[c][pos[c]],
                                            res |-> r.res, took |-> r.took])]
              /\ spent' = [spent EXCEPT ![c] = @ + r.took]
    /\ pos' = [pos EXCEPT ![c] = @ + 1]
    /\ pc' = [pc EXCEPT ![c] = "dial"]
    /\ UNCHANGED <<tavars, rdvars, cfgvars, schedule, schedule_lock, committed,
                   health_check_task, spawned, hcvars, snap, inflight, result>>

\* Err(_) => continue: fail_timeout elapsed before the child returned.
AttemptTimeout(c) ==
    /\ pc[c] = "await"
    /\ \E b \in ChildBehaviours :
          LET r == TimeoutAwait(fail_timeout, b)
          IN  /\ r.res = "timeout"
              /\ EndAttempt(c, r)
    /\ pos' = [pos EXCEPT ![c] = @ + 1]
    /\ pc' = [pc EXCEPT ![c] = "dial"]
    /\ UNCHANGED <<tavars, rdvars, cfgvars, schedule, schedule_lock, committed,
                   health_check_task, spawned, hcvars, snap, result>>

Handle(c) ==
    \/ CheckTask(c)
    \/ TakeTask(c)
    \/ Snapshot(c)
    \/ Dial(c)
    \/ AttemptOk(c)
    \/ AttemptErr(c)
    \/ AttemptTimeout(c)

Next == HealthCheck \/ \E c \in Callers : Handle(c)

Spec == Init /\ [][Next]_vars

\* The lazy spawn of every caller together with the health-check loop: the
\* part of the handler that writes the task holder and the schedule.
\* None of these steps reads fail_timeout, which is left at its largest value.
ProbeInit == Init /\ fail_timeout = MaxFailTimeout

ProbeNext == HealthCheck \/ \E c \in Callers : CheckTask(c) \/ TakeTask(c)

ProbeSpec == ProbeInit /\ [][ProbeNext]_vars

\* One handle invocation running against the health-check loop.
CallNext == HealthCheck \/ Handle(1)

CallSpec == Init /\ [][CallNext]_vars

\* The same with the scheduling the runtime guarantees: a task that can run
\* is polled (the steps of handle, and the health-check task between taking
\* and dropping the schedule guard, where it has no suspension point); an
\* awaited attempt ends, by the child's return or by the timer; the mutex
\* serves its waiters in order, so a waiting lock() is granted.
CallFairness ==
    /\ WF_vars(CheckTask(1))
    /\ WF_vars(TakeTask(1))
    /\ SF_vars(Snapshot(1))
    /\ WF_vars(Dial(1))
    /\ WF_vars(AttemptOk(1) \/ AttemptErr(1) \/ AttemptTimeout(1))
    /\ WF_vars(HCClear \/ HCPush \/ HCDrop)

CallFairSpec == CallSpec /\ CallFairness

\* ------------------------------------------------------------- properties
\* What the probe of child i did in the current iteration, and the latency
\* recorded for it.
Measured == 0..(Len(probes) - 1)
ProbeOf(i) == probes[i + 1]
LatencyOf(i) == measures[CHOOSE k \in 1..Len(measures) : measures[k].idx = i].lat
Succeeded(i) == ProbeOf(i).how = "ok"
\* Position of child i in the schedule (0 when it is not scheduled).
Rank(i) ==
    IF \E k \in 1..Len(schedule) : schedule[k] = i
    THEN CHOOSE k \in 1..Len(schedule) : schedule[k] = i
    ELSE 0
\* The rewrite of the current iteration is complete.
IterationDone == hc_pc \in {"drop", "sleep"}

\* C1: with health_check=true, however the first calls of handle interleave,
\* the stored task is spawned at most once: one caller takes it out of the
\* holder and every later taker finds the holder empty.
C1_SpawnedAtMostOnce ==
    /\ spawned <= 1
    /\ spawned = 1 => health_check /\ health_check_task = "None"
    /\ health_check /\ health_check_task = "None" => spawned = 1
    /\ ~health_check => spawned = 0

\* Two callers saw the holder full; one has taken the task, the other is about
\* to take and will find the holder empty.
C1_Witness ==
    /\ spawned = 1
    /\ \E c \in Callers : pc[c] = "take"
    /\ \E c \in Callers : pc[c] = "snapshot"

\* C2: after a completed health-check iteration with failover=true the
\* schedule is a permutation of 0..n-1 in ascending order of the latency
\* measured in that iteration, children of equal latency in index order.
C2_SortedPermutation ==
    (IterationDone /\ failover) =>
        /\ Len(schedule) = actors
        /\ {schedule[k] : k \in 1..Len(schedule)} = 0..(actors - 1)
        /\ \A j, k \in 1..Len(schedule) :
              j < k =>
                 \/ LatencyOf(schedule[j]) < LatencyOf(schedule[k])
                 \/ /\ LatencyOf(schedule[j]) = LatencyOf(schedule[k])
                    /\ schedule[j] < schedule[k]

\* An iteration over two children that measured the same latency.
C2_Witness ==
    /\ hc_pc = "sleep" /\ failover /\ actors >= 2
    /\ LatencyOf(0) = LatencyOf(1)
    /\ Len(schedule) = actors

\* C3: after a completed health-check iteration with failover=false and at
\* least one child the schedule is exactly the child of minimum measured
\* latency, the lowest index among those tied for the minimum.
C3_BestOnly ==
    (IterationDone /\ ~failover /\ actors >= 1) =>
        /\ Len(schedule) = 1
        /\ \A i \in 0..(actors - 1) :
              \/ LatencyOf(schedule[1]) < LatencyOf(i)
              \/ LatencyOf(schedule[1]) = LatencyOf(i) /\ schedule[1] <= i

\* The second child was the faster one and is the only one scheduled.
C3_Witness ==
    /\ hc_pc = "sleep" /\ ~failover /\ actors >= 2
    /\ LatencyOf(1) < LatencyOf(0)
    /\ schedule = <<1>>

\* C4: in every reachable state, the middle of a rewrite included, every
\* element of the schedule is a valid child index and none occurs twice.
C4_ValidNoDuplicates ==
    /\ \A k \in 1..Len(schedule) : schedule[k] \in 0..(actors - 1)
    /\ \A j, k \in 1..Len(schedule) : j # k => schedule[j] # schedule[k]

\* A second or later iteration is refilling the schedule.
C4_Witness ==
    /\ hc_pc = "push" /\ failover
    /\ Len(schedule) = 1 /\ actors >= 2
    /\ committed # Identity(actors)

\* C5: with failover=false (and at least one child) the schedule has length
\* exactly 1 in every reachable state, the state after construction included.
C5_LengthOneWithoutFailover ==
    (~failover /\ actors >= 1) => Len(schedule) = 1

\* C6: within an iteration every successful probe has a strictly smaller
\* latency than every failed probe, and the finished schedule puts every
\* successful child before every failed child (with failover=false, where
\* one child is scheduled, no failed child is scheduled when one succeeded).
C6_SuccessBeforeFailure ==
    \A i, j \in Measured :
        (Succeeded(i) /\ ~Succeeded(j)) =>
            /\ LatencyOf(i) < LatencyOf(j)
            /\ (IterationDone /\ failover) => (0 < Rank(i) /\ Rank(i) < Rank(j))
            /\ (IterationDone /\ ~failover) => Rank(j) = 0

\* Child 0 failed, child 1 succeeded and was moved to the front.
C6_Witness ==
    /\ hc_pc = "sleep" /\ failover /\ actors >= 2
    /\ ~Succeeded(0) /\ Succeeded(1)
    /\ schedule[1] = 1

\* Number of the stages dial -> write -> read a failed probe completed.
Progress(b) ==
    IF b.stage = "dial" THEN 0
    ELSE IF b.stage = "write" THEN 1
    ELSE IF b.stage = "read" THEN 2
    ELSE 3

\* C7 as stated: of two failed probes, the one that completed more of
\* dial -> write -> read never has the larger latency, timeouts at any stage
\* included.
C7_ProgressOrder ==
    \A i, j \in Measured :
        (~Succeeded(i) /\ ~Succeeded(j)
             /\ Progress(ProbeOf(i)) > Progress(ProbeOf(j))) =>
            LatencyOf(i) <= LatencyOf(j)

\* C7 amended: of two probes that failed with an error, the one that completed
\* more never has the larger latency; a probe ended by the timeout has latency
\* MAX-1 whatever stage it reached, below every dial error and above every
\* write or read error.
C7_ProgressOrderOfErrors ==
    \A i, j \in Measured :
        /\ (ProbeOf(i).how = "err" /\ ProbeOf(j).how = "err"
               /\ Progress(ProbeOf(i)) > Progress(ProbeOf(j))) =>
              LatencyOf(i) <= LatencyOf(j)
        /\ (ProbeOf(i).how = "hang" /\ ProbeOf(j).how = "err") =>
              /\ LatencyOf(i) = U128_MAX - 1
              /\ ProbeOf(j).stage = "dial" => LatencyOf(i) < LatencyOf(j)
              /\ ProbeOf(j).stage # "dial" => LatencyOf(i) > LatencyOf(j)

\* A probe that timed out in the read stage next to one whose write failed.
C7_Witness ==
    \E i, j \in Measured :
        /\ ProbeOf(i).how = "hang" /\ ProbeOf(i).stage = "read"
        /\ ProbeOf(j).how = "err" /\ ProbeOf(j).stage = "write"
        /\ hc_pc = "sleep"

\* ------------------------------------------------------ the dial path
Started(c) == pc[c] \in {"dial", "await", "done"}
Failed(a) == a.res \in {"err", "timeout"}

\* C8: handle attempts the children in the order of its snapshot, each index
\* at most once, returns the first child whose attempt succeeds within
\* fail_timeout and attempts none after it; when no attempt succeeds (or the
\* snapshot is empty) it fails with "all outbound attempts failed".
C8_FirstSuccessInOrder ==
    \A c \in Callers :
        Started(c) =>
            LET S == snap[c]
                A == attempts[c]
            IN  /\ Len(A) <= Len(S)
                /\ \A k \in 1..Len(A) : A[k].idx = S[k]
                /\ \A j, k \in 1..Len(A) : j # k => A[j].idx # A[k].idx
                /\ \A k \in 1..(Len(A) - 1) : Failed(A[k])
                /\ pc[c] # "done" => \A k \in 1..Len(A) : Failed(A[k])
                /\ pc[c] = "await" => inflight[c] = {S[Len(A) + 1]}
                /\ pc[c] = "done" =>
                      /\ inflight[c] = {}
                      /\ result[c].kind \in {"ok", "exhausted"}
                      /\ result[c].kind = "ok" <=>
                            (A # <<>> /\ A[Len(A)].res = "ok")
                      /\ result[c].kind = "ok" => result[c].idx = S[Len(A)]
                      /\ result[c].kind = "exhausted" =>
                            (Len(A) = Len(S) /\ \A k \in 1..Len(A) : Failed(A[k]))

\* A reordered snapshot whose first child timed out and whose second child
\* returned the stream.
C8_Witness ==
    /\ pc[1] = "done" /\ snap[1] = <<1, 0>>
    /\ Len(attempts[1]) = 2
    /\ attempts[1][1].res = "timeout"
    /\ result[1] = [kind |-> "ok", idx |-> 0, ctx |-> "none"]

\* C9 (bounds): handle makes at most |S| attempts, no attempt lasts longer
\* than fail_timeout, and the time spent in attempts is at most
\* |S| * fail_timeout.
C9_Bounded ==
    \A c \in Callers :
        /\ Len(attempts[c]) <= Len(snap[c])
        /\ \A k \in 1..Len(attempts[c]) : attempts[c][k].took <= fail_timeout
        /\ spent[c] <= Len(snap[c]) * fail_timeout

\* C9: handle always terminates, whatever the children do (hang forever
\* included) and while the health-check loop runs, within the bounds above.
C9_Terminates == []C9_Bounded /\ <>(pc[1] = "done")

\* Every attempt of a full snapshot ran into the timeout.
C9_Witness ==
    /\ pc[1] = "done" /\ result[1].kind = "exhausted"
    /\ Len(snap[1]) = 2 /\ fail_timeout >= 1
    /\ \A k \in 1..2 : attempts[1][k].res = "timeout"
    /\ spent[1] = 2 * fail_timeout
    /\ hc_pc # "unspawned"

\* C10 (one step): the copy handle takes is the complete schedule as it was
\* before or after a rewrite, never the cleared or partly refilled one, and a
\* rewrite after the copy changes neither the copy nor the child attempted
\* next.
C10_Step ==
    \A c \in Callers :
        /\ (pc[c] = "snapshot" /\ pc'[c] = "dial") =>
              /\ snap'[c] = committed
              /\ committed' = committed
        /\ Started(c) => snap'[c] = snap[c]
        /\ (pc[c] = "dial" /\ pc'[c] = "await") =>
              inflight'[c] = {snap[c][pos[c]]}

\* C10: every step of the handler and of the health-check loop keeps the
\* copy atomic in the sense above.
C10_AtomicSnapshot == [][C10_Step]_vars

\* The invocation dials from the copy it took of the identity order while the
\* schedule has since been rewritten to another order.
C10_Witness ==
    /\ pc[1] = "await" /\ snap[1] = <<0, 1>>
    /\ schedule_lock = "free" /\ schedule = <<1, 0>>
    /\ inflight[1] = {0}

\* C14: when every child of the snapshot was attempted and failed, the
\* aggregate error handle returns carries the error of the last child
\* attempted as its context.
C14_LastErrorAsContext ==
    \A c \in Callers :
        (pc[c] = "done" /\ result[c].kind = "exhausted" /\ attempts[c] # <<>>) =>
            result[c].ctx = attempts[c][Len(attempts[c])].res

\* C16: the health-check task does not run before the first handle call: until
\* a call takes it, nothing is probed and the schedule is the identity order;
\* with health_check=true a call that is past the lazy-spawn guard has left
\* the task spawned; with health_check=false it is never spawned and the
\* schedule stays the identity order.
C16_LazySpawn ==
    /\ spawned = 0 =>
          /\ hc_pc = "unspawned" /\ probes = <<>> /\ measures = <<>>
          /\ schedule = Identity(actors) /\ schedule_lock = "free"
    /\ (\A c \in Callers : pc[c] = "check") => spawned = 0
    /\ (health_check /\ \E c \in Callers : pc[c] = "snapshot") => spawned = 1
    /\ ~health_check => (spawned = 0 /\ schedule = Identity(actors))

\* One call has spawned the task, which has reordered the schedule, while
\* another call has not run yet.
C16_Witness ==
    /\ health_check /\ spawned = 1
    /\ \E c \in Callers : pc[c] = "check"
    /\ hc_pc = "sleep" /\ schedule # Identity(actors)

\* C17 (states): the schedule mutex is held exactly while the health-check
\* task clears and refills the schedule, after all probes of the iteration.
C17_HeldOnlyForRewrite ==
    /\ schedule_lock \in {"free", "hc"}
    /\ schedule_lock = "hc" <=> hc_pc \in {"clear", "push", "drop"}
    /\ schedule_lock = "hc" => Len(probes) = actors

\* C17 (steps): a step that invokes a child (a probe of the health-check task,
\* the start of an attempt of handle) is taken with the mutex not held by the
\* invoking task, and handle's copy leaves the mutex free.
C17_Step ==
    /\ Len(probes') > Len(probes) =>
          (schedule_lock = "free" /\ schedule_lock' = "free")
    /\ \A c \in Callers :
          /\ (pc[c] = "snapshot" /\ pc'[c] = "dial") => schedule_lock' = "free"
          /\ inflight'[c] # inflight[c] => schedule_lock' = schedule_lock

\* C17: no child's handle is invoked or awaited while the invoking task holds
\* the schedule mutex.
C17_NoChildUnderLock == []C17_HeldOnlyForRewrite /\ [][C17_Step]_vars

\* The health-check task refills the schedule under the mutex while the
\* invocation awaits a child.
C17_Witness ==
    /\ schedule_lock = "hc" /\ hc_pc = "push" /\ actors >= 2
    /\ pc[1] = "await"

\* C18: at most one child attempt of an invocation is in flight, namely the
\* one being awaited; when the next attempt is about to start or handle has
\* returned, none is.
C18_OneAttemptInFlight ==
    \A c \in Callers :
        /\ Cardinality(inflight[c]) <= 1
        /\ pc[c] = "await" => inflight[c] = {snap[c][pos[c]]}
        /\ pc[c] # "await" => inflight[c] = {}

\* The first attempt ran into the timeout and the second is in flight.
C18_Witness ==
    /\ pc[1] = "await" /\ pos[1] = 2
    /\ attempts[1][1].res = "timeout"
    /\ inflight[1] = {snap[1][2]}

\* C19: the health-check loop never aborts: every iteration completes its
\* rewrite and goes on to the next one, for every number of children and
\* either failover setting.
C19_LoopNeverAborts == hc_pc # "panicked"

\* ================================================================ try-all
\* A failover handler that is built with no children and never invoked.
FailoverIdle ==
    /\ actors = 0 /\ fail_timeout = 0 /\ failover = FALSE /\ health_check = FALSE
    /\ schedule = <<>> /\ schedule_lock = "free" /\ committed = <<>>
    /\ health_check_task = "None" /\ spawned = 0
    /\ hc_pc = "unspawned" /\ hc_i = 0 /\ measures = <<>> /\ probes = <<>>
    /\ pc = [c \in Callers |-> "check"]
    /\ snap = [c \in Callers |-> <<>>]
    /\ pos = [c \in Callers |-> 0]
    /\ attempts = [c \in Callers |-> <<>>]
    /\ inflight = [c \in Callers |-> {}]
    /\ spent = [c \in Callers |-> 0]
    /\ result = [c \in Callers |-> NoResult]

\* Times of the race are counted in units of 2^30 milliseconds, so that the
\* range of the u32 in which delay_base * i is computed is four units and a
\* product of small numbers leaves it: 2^32 = 4 * 2^30.
U32_RANGE == 4

\* self.delay_base * i as u32 in a build without overflow checks: the product
\* wraps around.
WrappingMul(a, b) == (a * b) % U32_RANGE

\* Whether self.delay_base * i as u32 leaves the range of a u32.
Overflows(a, b) == a * b >= U32_RANGE

\* Child k of the model is actors[k - 1], which enumerate() pairs with k - 1.
Racers == 1..ta_actors

\* What a child's handle does when called: return Ok or Err after d units, or
\* never return.
RaceBehaviours ==
    [kind : {"ok", "err"}, d : 0..MaxRaceDial] \cup {[kind |-> "hang", d |-> 0]}

\* What handle returned: nothing yet, Ok with the stream of child idx, the
\* error that wraps the error of child last, or a panic.
NoRaceResult == [kind |-> "none", idx |-> 0, last |-> 0]

\* A try-all handler with its children and its delay_base, built in either
\* kind of build, before handle is invoked.
TryInit ==
    /\ FailoverIdle
    /\ RedirectIdle
    /\ ta_actors \in 0..MaxRacers
    /\ delay_base \in 0..MaxDelayBase
    /\ overflow_checks \in BOOLEAN
    /\ ta_child \in [1..ta_actors -> RaceBehaviours]
    /\ ta_pc = "idle"
    /\ ta_next = 0
    /\ now = 0
    /\ task = [k \in 1..ta_actors |-> "new"]
    /\ wake = [k \in 1..ta_actors |-> 0]
    /\ started = [k \in 1..ta_actors |-> -1]
    /\ ta_errs = <<>>
    /\ ta_result = NoRaceResult

\* Mutation of Cancel: the tasks that are left keep running.
Cancel_Detached(t) == t

\* Dropping the tasks that have not completed: a task that waits in delay_for
\* or in its child's handle, or that was never polled, is gone.
Cancel(t) ==
    [k \in DOMAIN t |-> IF t[k] \in {"new", "delay", "dial"} THEN "dropped" ELSE t[k]]

\* handle is invoked: the loop pushes one task per child without running it,
\* and select_ok takes them; it refuses an empty iterator with a panic.
Invoke ==
    /\ ta_pc = "idle"
    /\ IF ta_actors = 0
          THEN /\ ta_pc' = "panicked"
               /\ ta_result' = [kind |-> "panic_empty", idx |-> 0, last |-> 0]
               /\ ta_next' = ta_next
          ELSE /\ ta_pc' = "polling"
               /\ ta_next' = 1
               /\ ta_result' = ta_result
    /\ UNCHANGED <<fovars, rdvars, ta_actors, delay_base, overflow_checks,
                   ta_child, now, task, wake, started, ta_errs>>

\* select_ok polls the tasks in order; the first poll of task k runs it up to
\* its first await.  With delay_base > 0 that computes delay_base * i in u32
\* (a panic in a build with overflow checks, the wrapped product otherwise)
\* and waits in delay_for; with delay_base = 0 it calls the child's handle.
FirstPoll ==
    /\ ta_pc = "polling"
    /\ task[ta_next] = "new"
    /\ IF delay_base > 0 /\ Overflows(delay_base, ta_next - 1) /\ overflow_checks
          THEN /\ ta_pc' = "panicked"
               /\ ta_result' = [kind |-> "panic_overflow", idx |-> ta_next, last |-> 0]
               /\ task' = Cancel(task)
               /\ UNCHANGED <<wake, started, ta_next>>
          ELSE /\ IF delay_base > 0
                     THEN /\ task' = [task EXCEPT ![ta_next] = "delay"]
                          /\ wake' = [wake EXCEPT ![ta_next] =
                                         WrappingMul(delay_base, ta_next - 1)]
                          /\ started' = started
                     ELSE /\ task' = [task EXCEPT ![ta_next] = "dial"]
                          /\ started' = [started EXCEPT ![ta_next] = now]
                          /\ wake' = wake
               /\ ta_pc' = IF ta_next = ta_actors THEN "racing" ELSE "polling"
               /\ ta_next' = ta_next + 1
               /\ ta_result' = ta_result
    /\ UNCHANGED <<fovars, rdvars, ta_actors, delay_base, overflow_checks,
                   ta_child, now, ta_errs>>

\* The delay of task k is over: a.handle(sess, None) is called.
StartDial(k) ==
    /\ task[k] = "delay"
    /\ wake[k] <= now
    /\ task' = [task EXCEPT ![k] = "dial"]
    /\ started' = [started EXCEPT ![k] = now]
    /\ UNCHANGED <<fovars, rdvars, ta_actors, delay_base, overflow_checks,
                   ta_child, ta_pc, ta_next, now, wake, ta_errs, ta_result>>

\* Child k returns Ok: select_ok yields its value with the tasks that are
\* left, and handle returns Ok(v.0), dropping them.
ChildOk(k) ==
    /\ task[k] = "dial"
    /\ ta_child[k].kind = "ok"
    /\ now = started[k] + ta_child[k].d
    /\ task' = Cancel([task EXCEPT ![k] = "ok"])
    /\ ta_pc' = "done"
    /\ ta_result' = [kind |-> "ok", idx |-> k, last |-> 0]
    /\ UNCHANGED <<fovars, rdvars, ta_actors, delay_base, overflow_checks,
                   ta_child, ta_next, now, wake, started, ta_errs>>

\* Mutation of ChildErr: the first error ends the race.
ChildErr_FirstError(k) ==
    /\ task[k] = "dial"
    /\ ta_child[k].kind = "err"
    /\ now = started[k] + ta_child[k].d
    /\ ta_errs' = Append(ta_errs, k)
    /\ task' = Cancel([task EXCEPT ![k] = "err"])
    /\ ta_pc' = "done"
    /\ ta_result' = [kind |-> "exhausted", idx |-> 0, last |-> k]
    /\ UNCHANGED <<fovars, rdvars, ta_actors, delay_base, overflow_checks,
                   ta_child, ta_next, now, wake, started>>

\* Child k returns Err: select_ok removes the task, and returns the error only
\* when no task is left; handle wraps it as the last error.
ChildErr(k) ==
    /\ task[k] = "dial"
    /\ ta_child[k].kind = "err"
    /\ now = started[k] + ta_child[k].d
    /\ ta_errs' = Append(ta_errs, k)
    /\ task' = [task EXCEPT ![k] = "err"]
    /\ IF \A j \in Racers : task'[j] = "err"
          THEN /\ ta_pc' = "done"
               /\ ta_result' = [kind |-> "exhausted", idx |-> 0, last |-> k]
          ELSE UNCHANGED <<ta_pc, ta_result>>
    /\ UNCHANGED <<fovars, rdvars, ta_actors, delay_base, overflow_checks,
                   ta_child, ta_next, now, wake, started>>

\* A task whose timer or whose child is ready at the present time.
Due(k) ==
    \/ task[k] = "delay" /\ wake[k] <= now
    \/ task[k] = "dial" /\ ta_child[k].kind # "hang"
                        /\ started[k] + ta_child[k].d <= now

\* A task with a timer or a child that becomes ready later.
Waiting(k) ==
    \/ task[k] = "delay" /\ wake[k] > now
    \/ task[k] = "dial" /\ ta_child[k].kind # "hang"
                        /\ started[k] + ta_child[k].d > now

\* Time passes while every task is pending and one of them has something to
\* wait for.
Tick ==
    /\ ta_pc = "racing"
    /\ \A k \in Racers : ~Due(k)
    /\ \E k \in Racers : Waiting(k)
    /\ now' = now + 1
    /\ UNCHANGED <<fovars, rdvars, ta_actors, delay_base, overflow_checks,
                   ta_child, ta_pc, ta_next, task, wake, started, ta_errs,
                   ta_result>>

\* The caller drops the future of handle while it is pending: the tasks go
\* with it.
DropFuture ==
    /\ ta_pc = "racing"
    /\ ta_pc' = "dropped"
    /\ task' = Cancel(task)
    /\ UNCHANGED <<fovars, rdvars, ta_actors, delay_base, overflow_checks,
                   ta_child, ta_next, now, wake, started, ta_errs, ta_result>>

TryNext ==
    \/ Invoke
    \/ FirstPoll
    \/ \E k \in Racers : StartDial(k)
    \/ \E k \in Racers : ChildOk(k)
    \/ \E k \in Racers : ChildErr(k)
    \/ Tick
    \/ DropFuture

TrySpec == TryInit /\ [][TryNext]_vars

\* ------------------------------------------------- properties of try-all
\* The race is on: handle has been invoked and has neither returned, nor
\* panicked, nor been dropped.
Racing == ta_pc \in {"polling", "racing"}

\* The time at which child k completes, once its dial has started.
CompletesAt(k) == started[k] + ta_child[k].d

\* C11: with at least one child, handle returns Ok at the moment the first
\* child completes successfully, whatever the number of children that failed
\* before (while the race is on no child has completed successfully, and no
\* successful child had completed before the winner); it returns an error only
\* when every child has failed, and the error carries the error of the child
\* that failed last.
C11_FirstSuccessLastError ==
    ta_actors >= 1 =>
        /\ Racing => /\ ta_result = NoRaceResult
                     /\ \A k \in Racers : task[k] # "ok"
                     /\ \E k \in Racers : task[k] # "err"
        /\ ta_result.kind = "ok" =>
              /\ ta_pc = "done"
              /\ ta_child[ta_result.idx].kind = "ok"
              /\ CompletesAt(ta_result.idx) = now
              /\ \A k \in Racers : task[k] = "ok" <=> k = ta_result.idx
              /\ \A k \in Racers :
                    (ta_child[k].kind = "ok" /\ started[k] >= 0) =>
                        CompletesAt(k) >= now
        /\ ta_result.kind = "exhausted" =>
              /\ ta_pc = "done"
              /\ \A k \in Racers : task[k] = "err" /\ ta_child[k].kind = "err"
              /\ Len(ta_errs) = ta_actors
              /\ ta_result.last = ta_errs[Len(ta_errs)]
        /\ ta_pc = "done" => ta_result.kind \in {"ok", "exhausted"}

\* C11 witness: handle returned the stream of a child that completed after
\* another child had failed and while a third one was still dialling.
C11_Witness ==
    /\ ta_pc = "done"
    /\ ta_result.kind = "ok"
    /\ ta_errs # <<>>
    /\ \E k \in Racers : task[k] = "dropped" /\ started[k] >= 0

\* C12: with delay_base > 0 the dial of child i does not start before
\* delay_base * i has elapsed since handle was invoked, and with two children
\* that both succeed, the first of which completes in less than delay_base,
\* the winner is the first.
C12_HeadStart ==
    delay_base > 0 =>
        /\ \A k \in Racers : started[k] >= 0 => started[k] >= delay_base * (k - 1)
        /\ ( /\ ta_actors = 2
             /\ ta_child[1].kind = "ok" /\ ta_child[2].kind = "ok"
             /\ ta_child[1].d < delay_base
             /\ ta_result.kind = "ok" ) => ta_result.idx = 1

\* C13: once handle has returned, or its future has been dropped, no task is
\* waiting in its delay or in its child's handle, and a task that was dropped
\* stays dropped and never starts a dial.
C13_NoneInFlight ==
    ta_pc \in {"done", "dropped"} =>
        \A k \in Racers : task[k] \in {"ok", "err", "dropped"}

C13_Step ==
    \A k \in Racers :
        task[k] = "dropped" => (task'[k] = "dropped" /\ started'[k] = started[k])

C13_LosersCancelled == []C13_NoneInFlight /\ [][C13_Step]_vars

\* C13 witness: handle returned a winner while one child was dialling and
\* another was still waiting in its start delay; the latter never dialled.
C13_Witness ==
    /\ ta_pc = "done"
    /\ ta_result.kind = "ok"
    /\ delay_base > 0
    /\ \E k \in Racers : task[k] = "dropped" /\ started[k] >= 0
    /\ \E k \in Racers : task[k] = "dropped" /\ started[k] = -1 /\ k < ta_next

\* C20: the start delay of child i is exactly delay_base * i: the product
\* does not wrap and does not abort the call, so the delays do not decrease
\* with i.
C20_ExactDelays ==
    /\ ta_result.kind # "panic_overflow"
    /\ delay_base > 0 =>
          \A k \in Racers :
              (task[k] = "delay" \/ started[k] >= 0) =>
                  wake[k] = delay_base * (k - 1)

\* =========================================================== redirect UDP
\* The texts a handler is configured with as its address.
AddressTexts == {"1.1.1.1", "10.0.0.53", "::1", "dns.example"}

\* The ports a handler is configured with, and those of the peers.
Ports == {53, 5353}

\* self.address.parse::<IpAddr>(): the address a text denotes, when it is the
\* text of an IP address.
ParseIpAddr(t) ==
    CASE t = "1.1.1.1" -> [ok |-> TRUE, ip |-> <<1, 1, 1, 1>>]
      [] t = "10.0.0.53" -> [ok |-> TRUE, ip |-> <<10, 0, 0, 53>>]
      [] t = "::1" -> [ok |-> TRUE, ip |-> <<0, 0, 0, 0, 0, 0, 0, 1>>]
      [] OTHER -> [ok |-> FALSE, ip |-> <<>>]

\* SocketAddr::new(ip, port).
SocketAddr(ip, port) == [ip |-> ip, port |-> port]

\* No socket address: the association does not exist.
NoAddr == SocketAddr(<<>>, 0)

\* The peers a caller names in send_to, and the sources datagrams come from.
Endpoints == [ip : {<<1, 1, 1, 1>>, <<10, 0, 0, 53>>, <<192, 0, 2, 7>>}, port : Ports]

\* Datagrams, by their length.
Payloads == 0..MaxPayload

NoSend == [kind |-> "none", len |-> 0, asked |-> NoAddr, dst |-> NoAddr]
NoRecv == [kind |-> "none", len |-> 0, src |-> NoAddr, peer |-> NoAddr]

\* A redirect handler with its address and port, before connect.
RedirectInit ==
    /\ FailoverIdle
    /\ TryAllIdle
    /\ rd_address \in AddressTexts
    /\ rd_port \in Ports
    /\ rd_pc = "idle"
    /\ rd_target = NoAddr
    /\ rd_halves = <<NoAddr, NoAddr>>
    /\ rd_sent = NoSend
    /\ rd_recv = NoRecv

\* connect: bind a socket (an error returns early), split it, parse the
\* address (unwrap panics when it is not the text of an IP address), and
\* return the association with target = SocketAddr::new(ip, port).
Connect ==
    /\ rd_pc = "idle"
    /\ \E bound \in BOOLEAN :
          IF ~bound
             THEN rd_pc' = "failed" /\ rd_target' = rd_target
             ELSE IF ~ParseIpAddr(rd_address).ok
                     THEN rd_pc' = "panicked" /\ rd_target' = rd_target
                     ELSE /\ rd_pc' = "connected"
                          /\ rd_target' = SocketAddr(ParseIpAddr(rd_address).ip, rd_port)
    /\ UNCHANGED <<fovars, tavars, rd_address, rd_port, rd_halves, rd_sent, rd_recv>>

\* Datagram::split: each half gets a copy of the target.
Split ==
    /\ rd_pc = "connected"
    /\ rd_pc' = "split"
    /\ rd_halves' = <<rd_target, rd_target>>
    /\ UNCHANGED <<fovars, tavars, rd_address, rd_port, rd_target, rd_sent, rd_recv>>

\* Mutation of SendTo: the datagram goes to the peer the caller names.
SendTo_ToPeer(p, q) ==
    /\ rd_pc = "split"
    /\ \E sent \in BOOLEAN :
          rd_sent' = [kind |-> IF sent THEN "sent" ELSE "err", len |-> p,
                      asked |-> q, dst |-> IF sent THEN q ELSE NoAddr]
    /\ UNCHANGED <<fovars, tavars, rd_address, rd_port, rd_pc, rd_target,
                   rd_halves, rd_recv>>

\* DatagramSendHalf::send_to(buf, _target): self.0.send_to(buf, &self.1); the
\* socket sends the datagram or returns an error.
SendTo(p, q) ==
    /\ rd_pc = "split"
    /\ \E sent \in BOOLEAN :
          rd_sent' = [kind |-> IF sent THEN "sent" ELSE "err", len |-> p,
                      asked |-> q, dst |-> IF sent THEN rd_halves[2] ELSE NoAddr]
    /\ UNCHANGED <<fovars, tavars, rd_address, rd_port, rd_pc, rd_target,
                   rd_halves, rd_recv>>

\* DatagramRecvHalf::recv_from(buf): the socket yields a datagram of length n
\* from src, reported as (n, self.1), or an error, passed on as it is.
RecvFrom(n, src) ==
    /\ rd_pc = "split"
    /\ \E received \in BOOLEAN :
          rd_recv' = IF received
                        THEN [kind |-> "ok", len |-> n, src |-> src,
                              peer |-> rd_halves[1]]
                        ELSE [kind |-> "err", len |-> 0, src |-> NoAddr,
                              peer |-> NoAddr]
    /\ UNCHANGED <<fovars, tavars, rd_address, rd_port, rd_pc, rd_target,
                   rd_halves, rd_sent>>

RedirectNext ==
    \/ Connect
    \/ Split
    \/ \E p \in Payloads, q \in Endpoints : SendTo(p, q)
    \/ \E n \in Payloads, src \in Endpoints : RecvFrom(n, src)

RedirectSpec == RedirectInit /\ [][RedirectNext]_vars

\* ------------------------------------------- properties of redirect UDP
\* The target the handler is configured with.
ConfiguredTarget == SocketAddr(ParseIpAddr(rd_address).ip, rd_port)

\* C15: on an association of the redirect UDP handler every datagram sent goes
\* to the configured address and port whatever peer the caller names, every
\* successful recv_from reports the configured target as the peer whatever
\* the source is, and the recorded target never changes after connect.
C15_Pinned ==
    /\ rd_pc \in {"connected", "split"} =>
          (ParseIpAddr(rd_address).ok /\ rd_target = ConfiguredTarget)
    /\ rd_pc = "split" => rd_halves = <<ConfiguredTarget, ConfiguredTarget>>
    /\ rd_sent.kind = "sent" => rd_sent.dst = ConfiguredTarget
    /\ rd_recv.kind = "ok" => rd_recv.peer = ConfiguredTarget

C15_Step ==
    /\ rd_pc \in {"connected", "split"} => rd_target' = rd_target
    /\ rd_pc = "split" => rd_halves' = rd_halves
    /\ rd_sent' # rd_sent =>
          (rd_sent'.kind = "sent" => rd_sent'.dst = rd_target)
    /\ rd_recv' # rd_recv =>
          (rd_recv'.kind = "ok" => rd_recv'.peer = rd_target)

C15_FixedTarget == []C15_Pinned /\ [][C15_Step]_vars

\* C15 witness: a datagram was sent to the target although the caller named
\* another peer, and one that came from another source was reported as coming
\* from the target.
C15_Witness ==
    /\ rd_pc = "split"
    /\ rd_sent.kind = "sent" /\ rd_sent.len > 0
    /\ rd_sent.asked # rd_sent.dst /\ rd_sent.dst = rd_target
    /\ rd_recv.kind = "ok" /\ rd_recv.src # rd_recv.peer
    /\ rd_recv.peer = rd_target
====
